---- MODULE Spec2Model ----
(***************************************************************************)
(* Session and job orchestration of backend/api_layer: the session         *)
(* registry (session_manager.py), the job registry and its dispatch        *)
(* workers (job_manager.py) and the HTTP handlers that drive them          *)
(* (blueprints/sessions.py, blueprints/data.py).                           *)
(*                                                                         *)
(* Abstractions.  A session id (uuid4) is the next unused natural number;  *)
(* a session's container id is its session id.  time.time() is monotone,   *)
(* so a session's created_at is its id.  The filesystem is reliable:       *)
(* makedirs, copy2 and rmtree succeed.  Docker calls fail only where the   *)
(* actions say so.  A job timestamp (time.time()) is the id of the worker  *)
(* thread that wrote it.                                                   *)
(*                                                                         *)
(* Specifications.  SessionSpec: the session registry under every input.   *)
(* RouteSpec: the HTTP routes around job creation, the response of         *)
(* POST /create_job recorded.  Spec: the job dispatcher and its workers.   *)
(* ResultSpec: what a worker does with each kind of response (document,    *)
(* upload, token ledger).  ReadSpec: the routes and socket events that     *)
(* hand out a job's status, logs and report.  CleanupFairSpec: the session *)
(* registry with cleanup_inactive_sessions.  DispatchFairSpec: the         *)
(* dispatcher with every worker thread scheduled.                          *)
(* RestartSpec and RecoverySpec: the process stopped and started again,    *)
(* with and without jobs.  LockSpec: create_session split at its call of   *)
(* the container runtime, the registry lock held in between.               *)
(***************************************************************************)
EXTENDS Integers, FiniteSets, Sequences, TLC

\* ---------------------------------------------------------------- bounds
MaxSessions == 2          \* session ids handed out in one run
MaxJobs     == 2          \* job ids handed out in one run
MaxWorkers  == 2          \* dispatch worker threads spawned in one run
JobSessions == 1          \* sessions the job dispatcher is exercised against
NumPorts    == 2          \* ports of the scanned range that the model keeps
MaxTokens   == 2          \* largest total_tokens a response reports

\* ------------------------------------------------------- program constants
StartPort == 5100
MaxPort   == StartPort + NumPorts - 1
Ports     == StartPort..MaxPort
NoPort    == 0            \* _find_free_port raised
NoSession == 0            \* Python None where a session id is expected;
                          \* also an id that was never handed out

\* names of the data files a client uploads
Files     == {"f.pkl"}

\* identities carried by the request token; "" is a caller without email
Emails    == {"a@x.com", "A@X.com", "b@x.com", ""}

\* identities that have a user document (the token ledger's keys)
Users     == {"a@x.com", "b@x.com"}

\* str.lower() on the identities above
Lower(e) ==
  CASE e = "A@X.com" -> "a@x.com"
    [] OTHER         -> e

VARIABLES
  sessions,      \* SessionManager.sessions: session id -> row
  sessionsFile,  \* sessions.json: session id -> saved row
  containers,    \* docker runtime: container (= session) id -> [state, port]
  inputDirs,     \* execution_layer/input_data/<sid>: sid -> set of files
  outputDirs,    \* execution_layer/output_data/<sid>: set of sid that exist
  nextSid,       \* next uuid4 for a session
  lock,          \* SessionManager.lock: "free", or the call that holds it
  jobs,          \* JobManager.jobs: job id -> row
  jobsFile,      \* jobs.json: job id -> saved row
  workers,       \* live execute_job threads: worker id -> [job, sid, pc, port,
                 \* email, and the response being handled]
  nextJid,       \* next uuid4 for a job
  nextWid,       \* next worker thread
  posts,         \* job id -> ports of the POST /analyze_job requests sent for it
  docs,          \* durable job documents: job id -> [job_status, report_url]
  ledger,        \* user documents: email -> used_token
  uploads,       \* blob storage: job ids whose analysis_report.html is stored
  last           \* the latest create_session or create_job request and
                 \* what it returned

sessVars == <<sessions, sessionsFile, containers, inputDirs, outputDirs, nextSid,
              lock>>
jobVars  == <<jobs, jobsFile, workers, nextJid, nextWid, posts, docs, ledger, uploads>>
vars     == <<sessions, sessionsFile, containers, inputDirs, outputDirs, nextSid, lock,
              jobs, jobsFile, workers, nextJid, nextWid, posts, docs, ledger,
              uploads, last>>

\* ------------------------------------------------------------ helpers
\* remove key k from function f
Drop(f, k) == [x \in DOMAIN f \ {k} |-> f[x]]

\* f with key k set to v (k may be new)
Put(f, k, v) == [x \in DOMAIN f \cup {k} |-> IF x = k THEN v ELSE f[x]]

Max(S) == CHOOSE x \in S : \A y \in S : y <= x
Min(S) == CHOOSE x \in S : \A y \in S : x <= y

\* _save_sessions_to_file: every row of the table, without container_obj
SaveSessionsToFile(tbl) ==
  [s \in DOMAIN tbl |->
     [status |-> tbl[s].status, ip |-> tbl[s].ip,
      port |-> tbl[s].port, email |-> tbl[s].email]]

\* a host port is taken when a running container publishes it
BindFails(p) ==
  \E c \in DOMAIN containers :
     containers[c].state = "running" /\ containers[c].port = p

\* _find_free_port without the scan of the tracked rows
FindFreePortProbeOnly ==
  LET free == {p \in Ports : ~ BindFails(p)}
  IN IF free = {} THEN NoPort ELSE Min(free)

\* _find_free_port: the lowest port of the range that no tracked row
\* records and that the bind probe accepts
FindFreePort ==
  LET free == {p \in Ports :
                 /\ ~ \E s \in DOMAIN sessions : sessions[s].port = p
                 /\ ~ BindFails(p)}
  IN IF free = {} THEN NoPort ELSE Min(free)

\* _get_most_recent_session_with_files: the row it reads for a directory is
\* the snapshot's row, or the in-memory row when the snapshot has none
AllSessionEmail(d) ==
  IF d \in DOMAIN sessionsFile THEN sessionsFile[d].email ELSE sessions[d].email

\* _get_most_recent_session_with_files without the owner filter
MostRecentSessionAnyOwner(email) ==
  IF DOMAIN inputDirs = {} \/ email = "" THEN NoSession
  ELSE LET cand == {d \in DOMAIN inputDirs :
                      /\ inputDirs[d] # {}
                      /\ d \in DOMAIN sessionsFile \cup DOMAIN sessions}
       IN IF cand = {} THEN NoSession ELSE Max(cand)

\* _get_most_recent_session_with_files: the newest session directory that
\* holds a file and whose row carries the caller's email, ignoring case
MostRecentSessionWithFiles(email) ==
  IF DOMAIN inputDirs = {} \/ email = "" THEN NoSession
  ELSE LET cand == {d \in DOMAIN inputDirs :
                      /\ inputDirs[d] # {}
                      /\ d \in DOMAIN sessionsFile \cup DOMAIN sessions
                      /\ Lower(AllSessionEmail(d)) = Lower(email)}
       IN IF cand = {} THEN NoSession ELSE Max(cand)

\* _cleanup_previous_session without its guard for active sessions
CleanupNeverSkipped(d) == FALSE

\* _cleanup_previous_session leaves a row alone that is active with a
\* container object
CleanupSkipped(d) ==
  d \in DOMAIN sessions /\ sessions[d].status = "active" /\ sessions[d].obj

\* `with self.lock` on a threading.Lock: the caller goes on only once the
\* lock is free (the lock is not reentrant)
LockFree == lock = "free"

Init ==
  /\ sessions = <<>>
  /\ sessionsFile = <<>>
  /\ containers = <<>>
  /\ inputDirs = <<>>
  /\ outputDirs = {}
  /\ nextSid = 1
  /\ lock = "free"
  /\ jobs = <<>>
  /\ jobsFile = <<>>
  /\ workers = <<>>
  /\ nextJid = 1
  /\ nextWid = 1
  /\ posts = <<>>
  /\ docs = <<>>
  /\ ledger = [u \in Users |-> 0]
  /\ uploads = {}
  /\ last = [op |-> "init"]

\* the row stored as soon as containers.run has returned a container
RegisteredBeforeCheck(run) == run # "run_raises"

\* create_session stores the row (and saves the snapshot) only after the
\* container was launched and reported running; every raise comes earlier
Registered(run) == run = "running"

\* SessionManager.create_session: what the call does to the registry, the
\* directories and the containers between taking self.lock and releasing it
CreateSessionBody(email, run, ip) ==
  /\ nextSid <= MaxSessions
  /\ LET sid   == nextSid
         port  == FindFreePort
         donor == MostRecentSessionWithFiles(email)
         skip  == donor # NoSession /\ CleanupSkipped(donor)
         del   == donor # NoSession /\ ~ skip
         \* _copy_session_input_files
         dirs1 == IF donor = NoSession THEN inputDirs
                  ELSE Put(inputDirs, sid, inputDirs[donor])
         \* _cleanup_previous_session
         dirs2 == IF del THEN Drop(dirs1, donor) ELSE dirs1
         out2  == IF del THEN (outputDirs \cup {sid}) \ {donor}
                  ELSE outputDirs \cup {sid}
         tbl2  == IF del THEN Drop(sessions, donor) ELSE sessions
         file2 == IF del THEN Drop(sessionsFile, donor) ELSE sessionsFile
         row   == [status |-> "active", obj |-> TRUE, ip |-> ip,
                   port |-> port, email |-> email]
     IN /\ nextSid' = sid + 1
        /\ UNCHANGED jobVars
        /\ IF port = NoPort
           THEN \* _find_free_port raised before anything was touched
                /\ UNCHANGED <<sessions, sessionsFile, containers, inputDirs, outputDirs>>
                /\ last' = [op |-> "CreateSession", ok |-> FALSE, sid |-> sid,
                            donor |-> NoSession]
           ELSE /\ inputDirs' = dirs2
                /\ outputDirs' = out2
                /\ last' = [op |-> "CreateSession", ok |-> (run = "running"), sid |-> sid,
                            donor |-> donor]
                /\ sessions' = IF Registered(run) THEN Put(tbl2, sid, row) ELSE tbl2
                /\ sessionsFile' = IF Registered(run)
                                   THEN SaveSessionsToFile(Put(tbl2, sid, row))
                                   ELSE file2
                /\ containers' =
                     IF run = "run_raises"
                     THEN \* containers.run raised: nothing was launched
                          containers
                     ELSE \* launched; "not_running": still not running after
                          \* one start()
                          Put(containers, sid,
                              [state |-> IF run = "running" THEN "running" ELSE "exited",
                               port |-> port])

\* SessionManager.create_session, the whole call under self.lock
CreateSession(email, run, ip) ==
  /\ LockFree
  /\ UNCHANGED lock
  /\ CreateSessionBody(email, run, ip)

\* create_session up to docker_client.containers.run: the thread is inside
\* `with self.lock` and waits for the container runtime to launch the
\* container
CreateSessionLaunches ==
  /\ LockFree
  /\ nextSid <= MaxSessions
  /\ lock' = "create_session"
  /\ UNCHANGED <<sessions, sessionsFile, containers, inputDirs, outputDirs, nextSid>>
  /\ UNCHANGED jobVars
  /\ UNCHANGED last

\* create_session from the return of containers.run to the end of the
\* `with self.lock` block
CreateSessionReturns(email, run, ip) ==
  /\ lock = "create_session"
  /\ lock' = "free"
  /\ CreateSessionBody(email, run, ip)

\* validate_data (blueprints/data.py): the uploader writes a file into the
\* input directory of whatever session id the request names
UploadFile(s, f) ==
  /\ s \in 1..(nextSid - 1)
  /\ inputDirs' = Put(inputDirs, s,
                      (IF s \in DOMAIN inputDirs THEN inputDirs[s] ELSE {}) \cup {f})
  /\ UNCHANGED last
  /\ UNCHANGED <<sessions, sessionsFile, containers, outputDirs, nextSid, lock>>
  /\ UNCHANGED jobVars

\* get_session_container trusting the row's status, without a reload
GetSessionContainerNoReload(s, ipFound) ==
  [tbl |-> sessions, file |-> sessionsFile,
   found |-> s \in DOMAIN sessions /\ sessions[s].status = "active"]

\* get_session_container answering only for a row that has an address
GetSessionContainerNeedsIp(s, ipFound) ==
  [tbl |-> sessions, file |-> sessionsFile,
   found |-> /\ s \in DOMAIN sessions /\ sessions[s].status = "active"
             /\ sessions[s].obj /\ containers[s].state = "running"
             /\ sessions[s].ip]

\* SessionManager.get_session_container as a function of the registry:
\* the table and the snapshot after the call, and the row returned
\* (found = FALSE is Python None).  ipFound: _get_container_ip gave an address
GetSessionContainer(s, ipFound) ==
  IF s \in DOMAIN sessions /\ sessions[s].status = "active"
  THEN IF ~ sessions[s].obj \/ containers[s].state = "removed"
       THEN \* reload raised
            [tbl |-> [sessions EXCEPT ![s].status = "error"],
             file |-> sessionsFile, found |-> FALSE]
       ELSE IF containers[s].state = "running"
       THEN IF ~ sessions[s].ip /\ ipFound
            THEN [tbl |-> [sessions EXCEPT ![s].ip = TRUE],
                  file |-> SaveSessionsToFile([sessions EXCEPT ![s].ip = TRUE]),
                  found |-> TRUE]
            ELSE [tbl |-> sessions, file |-> sessionsFile, found |-> TRUE]
       ELSE [tbl |-> [sessions EXCEPT ![s].status = "inactive"],
             file |-> sessionsFile, found |-> FALSE]
  ELSE [tbl |-> sessions, file |-> sessionsFile, found |-> FALSE]

\* validate_session (blueprints/sessions.py): a client polls a session
ValidateSession(s, ipFound) ==
  /\ LockFree
  /\ s \in 0..(nextSid - 1)
  /\ LET r == GetSessionContainer(s, ipFound)
     IN /\ sessions' = r.tbl
        /\ sessionsFile' = r.file
        /\ UNCHANGED last
  /\ UNCHANGED <<containers, inputDirs, outputDirs, nextSid, lock>>
  /\ UNCHANGED jobVars

\* what SessionManager.cleanup_session returns: True when the id has a row
\* and stopping and removing its container did not raise
CleanupSessionReturns(s) ==
  s \in DOMAIN sessions /\ sessions[s].obj /\ containers[s].state # "removed"

\* SessionManager.cleanup_session removing the input directory as well
CleanupSessionWithInput(s) ==
  /\ LockFree
  /\ s \in 0..(nextSid - 1)
  /\ UNCHANGED jobVars
  /\ IF CleanupSessionReturns(s)
     THEN LET tbl == [sessions EXCEPT ![s].status = "cleaned", ![s].obj = FALSE]
          IN /\ containers' = [containers EXCEPT ![s].state = "removed"]
             /\ sessions' = tbl
             /\ sessionsFile' = SaveSessionsToFile(tbl)
             /\ outputDirs' = outputDirs \ {s}
             /\ inputDirs' = [d \in DOMAIN inputDirs \ {s} |-> inputDirs[d]]
             /\ UNCHANGED <<nextSid, lock, last>>
     ELSE UNCHANGED <<sessions, sessionsFile, containers, inputDirs, outputDirs, nextSid, lock, last>>

\* SessionManager.cleanup_session
CleanupSession(s) ==
  /\ LockFree
  /\ s \in 0..(nextSid - 1)
  /\ UNCHANGED jobVars
  /\ IF CleanupSessionReturns(s)
     THEN LET tbl == [sessions EXCEPT ![s].status = "cleaned", ![s].obj = FALSE]
          IN /\ containers' = [containers EXCEPT ![s].state = "removed"]
             /\ sessions' = tbl
             /\ sessionsFile' = SaveSessionsToFile(tbl)
             /\ outputDirs' = outputDirs \ {s}
             /\ UNCHANGED <<inputDirs, nextSid, lock, last>>
     ELSE \* unknown id, or container_obj is None / gone: stop() raised
          UNCHANGED <<sessions, sessionsFile, containers, inputDirs, outputDirs, nextSid, lock, last>>

\* the container's process exits on its own (crash, OOM kill at mem_limit)
ContainerStops(c) ==
  /\ c \in DOMAIN containers
  /\ containers[c].state = "running"
  /\ containers' = [containers EXCEPT ![c].state = "exited"]
  /\ UNCHANGED last
  /\ UNCHANGED <<sessions, sessionsFile, inputDirs, outputDirs, nextSid, lock>>
  /\ UNCHANGED jobVars

\* ------------------------------------------------------------- jobs
\* the error strings update_job_status is given, by their fixed part
NoError        == "None"
ErrNoSession   == "Session {session_id} not found or inactive"
ErrNoPort      == "Cannot determine container port for session: {session_id}"
ErrTokenLimit  == "TOKEN_LIMIT_EXCEEDED: {error_msg}"
ErrToken402Raw == "Token limit exceeded (HTTP 402): {text}"
ErrAnalysis    == "Analysis failed: {error}"
ErrNetwork     == "Error communicating with container API: {e}"

\* what the container RPC can come back with: HTTP 200 with a clean result,
\* with a result that reports an error, or with completion_reason
\* token_limit_reached; HTTP 402 with a JSON or another body; another HTTP
\* error; requests.Timeout
Responses == {"200", "200_error", "200_token_limit", "402_json", "402_text",
              "500", "timeout"}

\* the outcomes the dispatcher is exercised with
DispatchResponses == {"200", "402_json", "402_text", "timeout"}

\* timestamps: None, or the worker whose update wrote time.time()
NoTime == 0

\* _save_jobs_to_file: every row, status by its string value
SaveJobsToFile(tbl) == tbl

\* JobManager.create_job: the pending row
NewJob(s, email, port) ==
  [session |-> s, status |-> "pending", started_at |-> NoTime,
   completed_at |-> NoTime, error |-> NoError, email |-> email, port |-> port]

\* JobManager.update_job_status by worker w: the table after the call
UpdateJobStatus(tbl, j, status, error, w) ==
  IF j \notin DOMAIN tbl THEN tbl
  ELSE [tbl EXCEPT
         ![j].status = status,
         ![j].started_at =
            IF status = "running" /\ @ = NoTime THEN w ELSE @,
         ![j].completed_at =
            IF status \in {"completed", "failed", "cancelled"} THEN w ELSE @,
         ![j].error = IF error # NoError THEN error ELSE @]

\* JobManager.save_job_to_firestore reaches its upload and its document
\* write only when the job row is still there and carries an owner email
SaveReaches(tbl, j) == j \in DOMAIN tbl /\ tbl[j].email # ""

\* save_job_to_firestore uploading whatever report is on disk
UploadsAnyReport(job_status, report) == report

\* save_job_to_firestore: the report is uploaded when job_status is success
\* and analysis_report.html exists in the job's output directory
UploadsReport(job_status, report) == job_status = "success" /\ report

\* JobManager.save_job_to_firestore: the document store after the call
SaveJobToFirestore(store, tbl, j, job_status, report) ==
  IF ~ SaveReaches(tbl, j) THEN store
  ELSE Put(store, j, [job_status |-> job_status,
                      report_url |-> UploadsReport(job_status, report)])

\* save_job_to_firestore: the blob storage after the call
UploadReport(blobs, tbl, j, job_status, report) ==
  IF SaveReaches(tbl, j) /\ UploadsReport(job_status, report)
  THEN blobs \cup {j} ELSE blobs

\* start_job_execution's thread start; the thread keeps the copy of the job
\* row that get_job returned
Spawn(j, s, email) ==
  /\ workers' = Put(workers, nextWid,
                    [job |-> j, sid |-> s, pc |-> "spawned", port |-> NoPort,
                     email |-> email, resp |-> "none", tokens |-> 0,
                     read |-> 0])
  /\ nextWid' = nextWid + 1

\* POST /create_job going on to create_job when the session did not resolve
CreateJobUnchecked(s, email, ipFound) ==
  /\ LockFree
  /\ s \in 0..(nextSid - 1)
  /\ LET r == GetSessionContainer(s, ipFound)
     IN /\ sessions' = r.tbl
        /\ sessionsFile' = r.file
        /\ nextJid <= MaxJobs
        /\ nextWid <= MaxWorkers
        /\ inputDirs' = IF s \in DOMAIN inputDirs THEN inputDirs
                        ELSE Put(inputDirs, s, {})
        /\ outputDirs' = outputDirs \cup {s}
        /\ jobs' = Put(jobs, nextJid,
                       NewJob(s, email, IF r.found THEN r.tbl[s].port ELSE NoPort))
        /\ jobsFile' = SaveJobsToFile(jobs')
        /\ nextJid' = nextJid + 1
        /\ Spawn(nextJid, s, email)
        /\ UNCHANGED <<containers, nextSid, lock, posts, docs, ledger, uploads>>

\* POST /create_job (blueprints/sessions.py create_job): resolve the session,
\* JobManager.create_job, JobManager.start_job_execution; what the caller is
\* told is added by CreateJob and CreateJobResponse
CreateJobRoute(s, email, ipFound) ==
  /\ LockFree
  /\ s \in 0..(nextSid - 1)
  /\ LET r == GetSessionContainer(s, ipFound)
     IN /\ sessions' = r.tbl
        /\ sessionsFile' = r.file
        /\ IF ~ r.found
           THEN \* 400 Invalid or inactive session
                /\ UNCHANGED <<containers, inputDirs, outputDirs, nextSid, lock>>
                /\ UNCHANGED jobVars
           ELSE /\ nextJid <= MaxJobs
                /\ nextWid <= MaxWorkers
                /\ inputDirs' = IF s \in DOMAIN inputDirs THEN inputDirs
                                ELSE Put(inputDirs, s, {})
                /\ outputDirs' = outputDirs \cup {s}
                /\ jobs' = Put(jobs, nextJid, NewJob(s, email, r.tbl[s].port))
                /\ jobsFile' = SaveJobsToFile(jobs')
                /\ nextJid' = nextJid + 1
                /\ Spawn(nextJid, s, email)
                /\ UNCHANGED <<containers, nextSid, lock, posts, docs, ledger, uploads>>

\* POST /create_job in the dispatcher's runs, the response not recorded
CreateJob(s, email, ipFound) ==
  /\ CreateJobRoute(s, email, ipFound)
  /\ UNCHANGED last

\* POST /create_job with its response recorded: 200 with the job id when the
\* session resolved, 400 otherwise
CreateJobResponse(s, email, ipFound) ==
  /\ CreateJobRoute(s, email, ipFound)
  /\ last' = [op |-> "CreateJob", ok |-> GetSessionContainer(s, ipFound).found,
              sid |-> s]

\* JobManager.start_job_execution called for a job id
StartJobExecution(j) ==
  /\ j \in 0..(nextJid - 1)
  /\ IF j \in DOMAIN jobs
     THEN /\ nextWid <= MaxWorkers
          /\ Spawn(j, jobs[j].session, jobs[j].email)
     ELSE UNCHANGED <<workers, nextWid>>
  /\ UNCHANGED <<jobs, jobsFile, nextJid, posts, docs, ledger, uploads, last>>
  /\ UNCHANGED sessVars

\* execute_job, first statement: update_job_status(RUNNING)
WorkerStart(w) ==
  /\ w \in DOMAIN workers
  /\ workers[w].pc = "spawned"
  /\ jobs' = UpdateJobStatus(jobs, workers[w].job, "running", NoError, w)
  /\ jobsFile' = SaveJobsToFile(jobs')
  /\ workers' = [workers EXCEPT ![w].pc = "resolve"]
  /\ UNCHANGED last
  /\ UNCHANGED <<nextJid, nextWid, posts, docs, ledger, uploads>>
  /\ UNCHANGED sessVars

\* posts with one more request for job j, sent to port p
Posted(j, p) ==
  Put(posts, j, (IF j \in DOMAIN posts THEN posts[j] ELSE <<>>) \o <<p>>)

\* execute_job from session_manager.get_session_container to the POST: either
\* the session does not resolve (or has no port) and the job is failed, or
\* session_req.post(container_url, ..., timeout=3600) goes out.  The lookup
\* touches only the session registry and the update only the job table, so
\* the two critical sections are taken as one step.
WorkerResolve(w, ipFound) ==
  /\ LockFree
  /\ w \in DOMAIN workers
  /\ workers[w].pc = "resolve"
  /\ LET r   == GetSessionContainer(workers[w].sid, ipFound)
         j   == workers[w].job
         err == IF ~ r.found THEN ErrNoSession
                ELSE IF r.tbl[workers[w].sid].port = NoPort THEN ErrNoPort
                ELSE NoError
     IN /\ sessions' = r.tbl
        /\ sessionsFile' = r.file
        /\ IF err # NoError
           THEN /\ jobs' = UpdateJobStatus(jobs, j, "failed", err, w)
                /\ jobsFile' = SaveJobsToFile(jobs')
                /\ workers' = Drop(workers, w)
                /\ UNCHANGED posts
           ELSE /\ posts' = Posted(j, r.tbl[workers[w].sid].port)
                /\ workers' = [workers EXCEPT ![w].pc = "await",
                                              ![w].port = r.tbl[workers[w].sid].port]
                /\ UNCHANGED <<jobs, jobsFile>>
  /\ UNCHANGED last
  /\ UNCHANGED <<containers, inputDirs, outputDirs, nextSid, lock>>
  /\ UNCHANGED <<nextJid, nextWid, docs, ledger, uploads>>

\* the error strings with a timeout reported like an HTTP error
ResponseErrorNoNetwork(resp) ==
  CASE resp = "402_json" -> ErrTokenLimit
    [] resp = "402_text" -> ErrToken402Raw
    [] resp = "500"      -> ErrAnalysis
    [] resp = "timeout"  -> ErrAnalysis
    [] OTHER             -> NoError

\* the error string execute_job builds for a response that is not 200
ResponseError(resp) ==
  CASE resp = "402_json" -> ErrTokenLimit
    [] resp = "402_text" -> ErrToken402Raw
    [] resp = "500"      -> ErrAnalysis
    [] resp = "timeout"  -> ErrNetwork
    [] OTHER             -> NoError

\* job_status derived without looking at completion_reason
DocStatusIgnoresReason(resp) ==
  IF resp \in {"200", "200_token_limit"} THEN "success" ELSE "failed"

\* the job_status save_job_to_firestore derives from the result it is given:
\* failed when the result has status error, an error, or completion_reason
\* token_limit_reached
DocStatus(resp) == IF resp = "200" THEN "success" ELSE "failed"

\* the registry status with a timed-out request left as it is
FinalStatusNoTimeout(resp) ==
  IF resp \in {"200", "200_error", "200_token_limit"} THEN "completed"
  ELSE IF resp = "timeout" THEN "running"
  ELSE "failed"

\* the status execute_job ends the job with: COMPLETED after every HTTP 200
FinalStatus(resp) ==
  IF resp \in {"200", "200_error", "200_token_limit"} THEN "completed" ELSE "failed"

\* execute_job's user_token_info is filled when the job has an owner email
\* and get_user finds the owner's document
UserTokenInfo(email) == email # "" /\ email \in DOMAIN ledger

\* execute_job calls update_user_tokens: only in the HTTP 200 branch, with
\* user_token_info filled and metrics.total_tokens above zero
LedgerUpdates(resp, email, tokens) ==
  /\ resp \in {"200", "200_error", "200_token_limit"}
  /\ UserTokenInfo(email)
  /\ tokens > 0

\* execute_job from save_container_logs on: save_job_to_firestore with its
\* upload, then the final update_job_status; the thread ends
Finalize(w, resp, report) ==
  /\ uploads' = UploadReport(uploads, jobs, workers[w].job, DocStatus(resp), report)
  /\ docs' = SaveJobToFirestore(docs, jobs, workers[w].job, DocStatus(resp), report)
  /\ jobs' = UpdateJobStatus(jobs, workers[w].job, FinalStatus(resp), ResponseError(resp), w)
  /\ jobsFile' = SaveJobsToFile(jobs')
  /\ workers' = Drop(workers, w)
  /\ UNCHANGED last
  /\ UNCHANGED <<nextJid, nextWid, posts>>
  /\ UNCHANGED sessVars

\* execute_job: the POST returns or raises.  resp is the outcome, tokens the
\* metrics.total_tokens it reports, report whether analysis_report.html is in
\* the job's output directory when save_job_to_firestore looks for it.  When
\* the ledger is to be updated the step ends after update_user_tokens has
\* read the owner's document (get_user); otherwise it runs to the end of the
\* thread
WorkerResponse(w, resp, tokens, report) ==
  /\ w \in DOMAIN workers
  /\ workers[w].pc = "await"
  /\ IF LedgerUpdates(resp, workers[w].email, tokens)
     THEN /\ workers' = [workers EXCEPT ![w].pc = "ledger", ![w].resp = resp,
                                        ![w].tokens = tokens,
                                        ![w].read = ledger[workers[w].email]]
          /\ UNCHANGED <<jobs, jobsFile, nextJid, nextWid, posts, docs, ledger, uploads>>
          /\ UNCHANGED last
          /\ UNCHANGED sessVars
     ELSE /\ Finalize(w, resp, report)
          /\ UNCHANGED ledger

\* execute_job: update_user_tokens writes used_token = the value it read plus
\* the job's tokens (update_user), then the thread runs to its end
WorkerLedger(w, report) ==
  /\ w \in DOMAIN workers
  /\ workers[w].pc = "ledger"
  /\ ledger' = [ledger EXCEPT ![workers[w].email] = workers[w].read + workers[w].tokens]
  /\ Finalize(w, workers[w].resp, report)

\* JobManager.cleanup_old_jobs with _cleanup_job: jobs are created in id
\* order, so the jobs older than max_age are those up to some id k.  A job's
\* input_dir is its session's input directory, and _cleanup_job removes it
\* together with the row
CleanupOldJobs(k) ==
  /\ LET old == {j \in DOMAIN jobs : j <= k}
     IN /\ old # {}
        /\ inputDirs' = [d \in DOMAIN inputDirs \ {jobs[j].session : j \in old} |-> inputDirs[d]]
        /\ jobs' = [j \in DOMAIN jobs \ old |-> jobs[j]]
        /\ jobsFile' = SaveJobsToFile(jobs')
        /\ UNCHANGED last
  /\ UNCHANGED <<sessions, sessionsFile, containers, outputDirs, nextSid, lock>>
  /\ UNCHANGED <<workers, nextJid, nextWid, posts, docs, ledger, uploads>>

\* the callers the job dispatcher is exercised with
JobEmails == {"a@x.com"}

\* GET /session_id for the sessions the dispatcher works against
OpenSession ==
  /\ nextSid <= JobSessions
  /\ CreateSession("a@x.com", "running", TRUE)

Next ==
  \/ OpenSession
  \/ \E s \in 0..MaxSessions : CleanupSession(s)
  \/ \E c \in 1..MaxSessions : ContainerStops(c)
  \/ \E s \in 0..MaxSessions, e \in JobEmails : CreateJob(s, e, TRUE)
  \/ \E j \in 0..MaxJobs : StartJobExecution(j)
  \/ \E w \in 1..MaxWorkers : WorkerStart(w)
  \/ \E w \in 1..MaxWorkers : WorkerResolve(w, TRUE)
  \/ \E w \in 1..MaxWorkers, resp \in DispatchResponses :
       WorkerResponse(w, resp, 0, FALSE)
  \/ \E k \in 1..MaxJobs : CleanupOldJobs(k)

Spec == Init /\ [][Next]_vars

\* the session registry on its own, every input
SessionNext ==
  \/ \E e \in Emails, run \in {"running", "run_raises", "not_running"}, ip \in BOOLEAN :
       CreateSession(e, run, ip)
  \/ \E s \in 1..MaxSessions, f \in Files : UploadFile(s, f)
  \/ \E s \in 0..MaxSessions, ipFound \in BOOLEAN : ValidateSession(s, ipFound)
  \/ \E s \in 0..MaxSessions : CleanupSession(s)
  \/ \E c \in 1..MaxSessions : ContainerStops(c)

SessionSpec == Init /\ [][SessionNext]_vars

\* the HTTP routes around job creation, before any dispatch worker is
\* scheduled, with the response of POST /create_job recorded
RouteNext ==
  \/ OpenSession
  \/ \E s \in 1..MaxSessions, f \in Files : UploadFile(s, f)
  \/ \E s \in 0..MaxSessions : ValidateSession(s, TRUE)
  \/ \E s \in 0..MaxSessions : CleanupSession(s)
  \/ \E c \in 1..MaxSessions : ContainerStops(c)
  \/ \E s \in 0..MaxSessions, e \in Emails : CreateJobResponse(s, e, TRUE)

RouteSpec == Init /\ [][RouteNext]_vars

\* the owners the result handling is exercised with: one with a user
\* document, one without email
ResultEmails == {"a@x.com", ""}

\* how the dispatch workers record what the container returned: token
\* ledger, durable document, report upload, final status
ResultNext ==
  \/ OpenSession
  \/ \E s \in 0..MaxSessions, e \in ResultEmails : CreateJob(s, e, TRUE)
  \/ \E w \in 1..MaxWorkers : WorkerStart(w)
  \/ \E w \in 1..MaxWorkers : WorkerResolve(w, TRUE)
  \/ \E w \in 1..MaxWorkers, resp \in Responses, tokens \in 0..MaxTokens,
        report \in BOOLEAN : WorkerResponse(w, resp, tokens, report)
  \/ \E w \in 1..MaxWorkers, report \in BOOLEAN : WorkerLedger(w, report)

ResultSpec == Init /\ [][ResultNext]_vars

\* ------------------------------------------------------------ job readers
\* identities of the authenticated callers of the job routes (g.user set by
\* the before_request middleware; a request without a valid token gets 401)
Callers == Users

\* what a reader is told: whether the job's data was sent, to whom, and
\* the owner snapshot on the row that was read
ReadResult(op, j, caller, ok) ==
  [op |-> op, job |-> j, caller |-> caller, ok |-> ok,
   owner |-> IF j \in DOMAIN jobs THEN jobs[j].email ELSE ""]

\* a handler that only reads: the registries stay as they are
ReadOnly == UNCHANGED sessVars /\ UNCHANGED jobVars

\* GET /job_status/<job_id>: 404 when the row is missing, the row's status,
\* timestamps and error otherwise
GetJobStatus(j, caller) ==
  /\ last' = ReadResult("GetJobStatus", j, caller, j \in DOMAIN jobs)
  /\ ReadOnly

\* JobManager.get_job_report_path: the report of a completed job, when the
\* file is on disk
GetJobReportPath(j, onDisk) ==
  j \in DOMAIN jobs /\ jobs[j].status = "completed" /\ onDisk

\* GET /job_report/<job_id>: 404 without row, 400 unless completed, 404
\* without report file, the report's HTML otherwise
GetJobReport(j, caller, onDisk) ==
  /\ last' = ReadResult("GetJobReport", j, caller, GetJobReportPath(j, onDisk))
  /\ ReadOnly

\* the ownership test of /job_logs: caller and owner compared in lower case
OwnsJob(j, caller) ==
  j \in DOMAIN jobs /\ Lower(jobs[j].email) = Lower(caller)

\* GET /job_logs/<job_id>: 401 without email, 404 without row, 403 for a
\* caller who is not the owner, the log stream otherwise
JobLogs(j, caller) ==
  /\ last' = ReadResult("JobLogs", j, caller, caller # "" /\ OwnsJob(j, caller))
  /\ ReadOnly

\* SessionManager.check_session_ownership
CheckSessionOwnership(s, email) ==
  s \in DOMAIN sessions /\ Lower(sessions[s].email) = Lower(email)

\* the test of the socket events join_job and join_job_logs: the caller owns
\* the session, owns the job, and the job belongs to that session
JoinAllowed(j, caller, s) ==
  /\ j # 0 /\ caller # "" /\ s # NoSession
  /\ CheckSessionOwnership(s, caller)
  /\ OwnsJob(j, caller)
  /\ jobs[j].session = s

\* socket event join_job: the caller enters the job's status room
HandleJoinJob(j, caller, s) ==
  /\ LockFree
  /\ last' = ReadResult("HandleJoinJob", j, caller, JoinAllowed(j, caller, s))
  /\ ReadOnly

\* socket event join_job_logs: the caller is sent the job's logs
HandleJoinJobLogs(j, caller, s) ==
  /\ LockFree
  /\ last' = ReadResult("HandleJoinJobLogs", j, caller, JoinAllowed(j, caller, s))
  /\ ReadOnly

\* the job routes read while the dispatcher runs
ReadNext ==
  \/ OpenSession
  \/ \E s \in 0..MaxSessions, e \in JobEmails : CreateJob(s, e, TRUE)
  \/ \E w \in 1..MaxWorkers : WorkerStart(w)
  \/ \E w \in 1..MaxWorkers : WorkerResolve(w, TRUE)
  \/ \E w \in 1..MaxWorkers, resp \in DispatchResponses :
       WorkerResponse(w, resp, 0, FALSE)
  \/ \E j \in 0..MaxJobs, c \in Callers : GetJobStatus(j, c)
  \/ \E j \in 0..MaxJobs, c \in Callers, d \in BOOLEAN : GetJobReport(j, c, d)
  \/ \E j \in 0..MaxJobs, c \in Callers : JobLogs(j, c)
  \/ \E j \in 0..MaxJobs, c \in Callers, s \in 0..MaxSessions :
       HandleJoinJob(j, c, s)
  \/ \E j \in 0..MaxJobs, c \in Callers, s \in 0..MaxSessions :
       HandleJoinJobLogs(j, c, s)

ReadSpec == Init /\ [][ReadNext]_vars

\* ------------------------------------------------- cleanup of old sessions
\* SessionManager.cleanup_inactive_sessions; the rows with id up to k are the
\* ones created more than max_age_hours ago.  The call takes self.lock and
\* lists the old rows.  Without old rows it releases the lock and returns.
\* Otherwise it calls cleanup_session for the first of them while it still
\* holds the lock; cleanup_session starts with `with self.lock`, the lock is
\* a threading.Lock, and the thread waits for itself: the lock stays taken.
CleanupInactiveSessions(k) ==
  /\ LockFree
  /\ LET old == {s \in DOMAIN sessions : s <= k}
     IN /\ lock' = IF old = {} THEN "free" ELSE "cleanup_inactive_sessions"
        /\ last' = [op |-> "CleanupInactive", returned |-> old = {}, old |-> old]
  /\ UNCHANGED <<sessions, sessionsFile, containers, inputDirs, outputDirs, nextSid>>
  /\ UNCHANGED jobVars

\* the session registry with its periodic cleanup
CleanupNext ==
  \/ \E e \in Users, run \in {"running", "not_running"} : CreateSession(e, run, TRUE)
  \/ \E s \in 1..MaxSessions : CleanupSession(s)
  \/ \E c \in 1..MaxSessions : ContainerStops(c)
  \/ \E s \in 1..MaxSessions : ValidateSession(s, TRUE)
  \/ \E k \in 0..MaxSessions : CleanupInactiveSessions(k)

CleanupSpec == Init /\ [][CleanupNext]_vars

\* every thread that can take a step is scheduled sooner or later
CleanupFairSpec == CleanupSpec /\ WF_vars(CleanupNext)

\* ------------------------------------------------- dispatch under fairness
\* one step of the execute_job thread w, whatever its position
WorkerStep(w) ==
  \/ WorkerStart(w)
  \/ WorkerResolve(w, TRUE)
  \/ \E resp \in DispatchResponses : WorkerResponse(w, resp, 0, FALSE)

\* jobs created and dispatched by POST /create_job while sessions are
\* cleaned up and containers stop underneath them
DispatchNext ==
  \/ OpenSession
  \/ \E s \in 0..MaxSessions : CleanupSession(s)
  \/ \E c \in 1..MaxSessions : ContainerStops(c)
  \/ \E s \in 0..MaxSessions, e \in JobEmails : CreateJob(s, e, TRUE)
  \/ \E w \in 1..MaxWorkers : WorkerStart(w)
  \/ \E w \in 1..MaxWorkers : WorkerResolve(w, TRUE)
  \/ \E w \in 1..MaxWorkers, resp \in DispatchResponses : WorkerResponse(w, resp, 0, FALSE)

\* every started execute_job thread keeps being scheduled, and its request
\* to the container returns or runs into timeout=3600
DispatchFairSpec ==
  Init /\ [][DispatchNext]_vars /\ \A w \in 1..MaxWorkers : WF_vars(WorkerStep(w))

\* --------------------------------------------------------- process restart
\* container.start() during recovery: it fails when the caller's input says
\* so, and when another running container publishes the same host port
StartSucceeds(conts, s, startOk) ==
  /\ s \in startOk
  /\ ~ \E c \in DOMAIN conts \ {s} :
          conts[c].state = "running" /\ conts[c].port = conts[s].port

\* validation keeping a stopped container's row whether or not it started
ValidateKeepsStopped(conts, s, startOk) ==
  s \in DOMAIN conts /\ conts[s].state # "removed"

\* SessionManager._validate_existing_session for the saved row of s, given
\* the containers as they are when its turn comes: False when the container
\* is missing (NotFound), True when it runs, and for a stopped one the
\* outcome of the single start()
ValidateExistingSession(conts, s, startOk) ==
  /\ s \in DOMAIN conts
  /\ conts[s].state # "removed"
  /\ conts[s].state = "running" \/ StartSucceeds(conts, s, startOk)

\* whether validation of s calls container.start()
StartAttempted(conts, s) ==
  s \in DOMAIN conts /\ conts[s].state = "exited"

\* the containers after validation of s
ContainersAfterValidate(conts, s, startOk) ==
  IF StartAttempted(conts, s) /\ StartSucceeds(conts, s, startOk)
  THEN [conts EXCEPT ![s].state = "running"]
  ELSE conts

\* SessionManager._load_sessions_from_file: the saved rows are validated one
\* after the other in the order of the file; acc carries the registry, the
\* containers and the ids start() was called for, in call order
RECURSIVE LoadSessionsFromFile(_, _, _, _, _)
LoadSessionsFromFile(file, todo, acc, startOk, ipFound) ==
  IF todo = {} THEN acc
  ELSE LET s    == Min(todo)
           keep == ValidateExistingSession(acc.conts, s, startOk)
           row  == [status |-> file[s].status, obj |-> TRUE,
                    ip |-> file[s].ip \/ ipFound,
                    port |-> file[s].port, email |-> file[s].email]
       IN LoadSessionsFromFile(file, todo \ {s},
            [tbl    |-> IF keep THEN Put(acc.tbl, s, row) ELSE acc.tbl,
             conts  |-> ContainersAfterValidate(acc.conts, s, startOk),
             starts |-> IF StartAttempted(acc.conts, s)
                        THEN Append(acc.starts, s) ELSE acc.starts],
            startOk, ipFound)

\* JobManager.__init__: the table starts empty; jobs.json is not read
\* (_load_jobs_from_file has no caller)
JobManagerInit == <<>>

\* the API process is stopped and started again: its threads and both
\* in-memory registries are gone, SessionManager() recovers the sessions
\* from sessions.json, JobManager() starts over.  Files, containers' ports,
\* directories, documents and the ledger stay.
Restart(startOk, ipFound) ==
  /\ sessionsFile # <<>>
  /\ LET r == LoadSessionsFromFile(sessionsFile, DOMAIN sessionsFile,
                [tbl |-> <<>>, conts |-> containers, starts |-> <<>>],
                startOk, ipFound)
     IN /\ sessions' = r.tbl
        /\ containers' = r.conts
        /\ last' = [op |-> "Restart", starts |-> r.starts]
  /\ lock' = "free"
  /\ jobs' = JobManagerInit
  /\ workers' = <<>>
  /\ UNCHANGED <<sessionsFile, inputDirs, outputDirs, nextSid>>
  /\ UNCHANGED <<jobsFile, nextJid, nextWid, posts, docs, ledger, uploads>>

\* sessions and jobs of a process that is restarted now and then
RestartNext ==
  \/ CreateSession("a@x.com", "running", TRUE)
  \/ \E s \in 1..MaxSessions : CleanupSession(s)
  \/ \E c \in 1..MaxSessions : ContainerStops(c)
  \/ \E s \in 1..MaxSessions : ValidateSession(s, TRUE)
  \/ \E s \in 1..MaxSessions, e \in JobEmails : CreateJob(s, e, TRUE)
  \/ \E w \in 1..MaxWorkers : WorkerStart(w)
  \/ \E startOk \in SUBSET (1..MaxSessions), ipFound \in BOOLEAN :
       Restart(startOk, ipFound)

RestartSpec == Init /\ [][RestartNext]_vars

\* the session registry alone, of a process that is restarted now and then
RecoveryNext ==
  \/ \E ip \in BOOLEAN : CreateSession("a@x.com", "running", ip)
  \/ \E s \in 1..MaxSessions : CleanupSession(s)
  \/ \E c \in 1..MaxSessions : ContainerStops(c)
  \/ \E s \in 1..MaxSessions : ValidateSession(s, TRUE)
  \/ \E startOk \in SUBSET (1..MaxSessions), ipFound \in BOOLEAN :
       Restart(startOk, ipFound)

RecoverySpec == Init /\ [][RecoveryNext]_vars

\* ----------------------------------------- the registry lock and the runtime
\* the session registry with session creation split at its call of the
\* container runtime
LockNext ==
  \/ CreateSessionLaunches
  \/ \E e \in Users, run \in {"running", "run_raises", "not_running"} :
       CreateSessionReturns(e, run, TRUE)
  \/ \E s \in 1..MaxSessions : ValidateSession(s, TRUE)
  \/ \E s \in 1..MaxSessions : CleanupSession(s)
  \/ \E c \in 1..MaxSessions : ContainerStops(c)

LockSpec == Init /\ [][LockNext]_vars

\* ------------------------------------------------------------- claims

ActiveSessions == {s \in DOMAIN sessions : sessions[s].status = "active"}

\* C1: in every reachable state no two sessions whose status is active hold
\* the same container_port.
C1_DisjointPorts ==
  \A s1 \in ActiveSessions : \A s2 \in ActiveSessions :
     s1 # s2 => sessions[s1].port # sessions[s2].port

\* two sessions of different owners are active at once
C1_Witness ==
  \E s1 \in ActiveSessions : \E s2 \in ActiveSessions :
     /\ s1 # s2
     /\ Lower(sessions[s1].email) # Lower(sessions[s2].email)
     /\ sessions[s1].port \in Ports /\ sessions[s2].port \in Ports

C6_SameOwnerDonor ==
  [][\A e \in Emails, run \in {"running", "run_raises", "not_running"}, ip \in BOOLEAN :
       CreateSession(e, run, ip) =>
         /\ nextSid \in DOMAIN inputDirs' =>
              \E d \in DOMAIN inputDirs :
                 /\ d \in DOMAIN sessions \cup DOMAIN sessionsFile
                 /\ AllSessionEmail(d) # ""
                 /\ Lower(AllSessionEmail(d)) = Lower(e)
                 /\ inputDirs'[nextSid] = inputDirs[d]
         /\ e = "" => nextSid \notin DOMAIN inputDirs']_vars

\* a new session received files from a donor whose email differs from the
\* caller's only in case
C6_Witness ==
  /\ last.op = "CreateSession" /\ last.donor # NoSession
  /\ last.ok /\ last.donor \in DOMAIN sessions
  /\ sessions[last.donor].email # sessions[last.sid].email
  /\ Lower(sessions[last.donor].email) = Lower(sessions[last.sid].email)
  /\ last.sid \in DOMAIN inputDirs /\ inputDirs[last.sid] # {}

AllowedTransitions ==
  {<<"pending", "running">>, <<"running", "completed">>, <<"running", "failed">>,
   <<"running", "cancelled">>, <<"pending", "failed">>}

\* C2 as stated: every change of a job's status is pending->running,
\* running->completed, running->failed, running->cancelled or
\* pending->failed, so a completed, failed or cancelled job never changes.
C2_StatusMonotonic ==
  [][\A j \in DOMAIN jobs \cap DOMAIN jobs' :
       jobs[j].status # jobs'[j].status =>
         <<jobs[j].status, jobs'[j].status>> \in AllowedTransitions]_vars

\* C3 as stated: a job failed because its session did not resolve, or had
\* no port, went from pending to failed and never had started_at set.
C3_DispatchFailureNotStarted ==
  \A j \in DOMAIN jobs :
     (jobs[j].status = "failed" /\ jobs[j].error \in {ErrNoSession, ErrNoPort}) =>
        jobs[j].started_at = NoTime

\* C4: CreateJob for a session id without a row, or whose row is not
\* active, returns an error and leaves the job table and jobs.json alone.
C4_NoJobForDeadSession ==
  [][\A s \in 0..MaxSessions, e \in Emails :
       (CreateJobResponse(s, e, TRUE)
          /\ (s \notin DOMAIN sessions \/ sessions[s].status # "active")) =>
         /\ ~ last'.ok
         /\ jobs' = jobs
         /\ jobsFile' = jobsFile]_vars

\* with a job in the table, CreateJob against a cleaned session was refused
C4_Witness ==
  /\ last.op = "CreateJob" /\ ~ last.ok
  /\ last.sid \in DOMAIN sessions /\ sessions[last.sid].status = "cleaned"
  /\ jobs # <<>> /\ jobsFile = jobs

\* an error string carries the TOKEN_LIMIT_EXCEEDED tag
TokenLimitTagged(err) == err = ErrTokenLimit

\* C8 as stated: handling an HTTP 402, whatever its body, leaves the job
\* failed with an error tagged TOKEN_LIMIT_EXCEEDED and a durable document.
C8_TokenLimitTagged ==
  [][\A w \in DOMAIN workers : \A resp \in {"402_json", "402_text"} :
       (WorkerResponse(w, resp, 0, FALSE) /\ workers[w].job \in DOMAIN jobs) =>
         /\ jobs'[workers[w].job].status = "failed"
         /\ TokenLimitTagged(jobs'[workers[w].job].error)
         /\ workers[w].job \in DOMAIN docs']_vars

\* every request sent for a job went to the port of the job's session
PostsGoToSessionPort ==
  \A j \in DOMAIN posts \cap DOMAIN jobs :
     \A i \in 1..Len(posts[j]) :
        posts[j][i] = containers[jobs[j].session].port

\* C9: handling a timed-out RPC fails the job with the network error and
\* changes neither the session registry, its snapshot nor any container; the
\* requests for the jobs of one session all go to that session's port.
C9_TimeoutLeavesSession ==
  [][/\ \A w \in DOMAIN workers :
          WorkerResponse(w, "timeout", 0, FALSE) =>
            /\ sessions' = sessions
            /\ sessionsFile' = sessionsFile
            /\ containers' = containers
            /\ workers[w].job \in DOMAIN jobs =>
                 /\ jobs'[workers[w].job].status = "failed"
                 /\ jobs'[workers[w].job].error = ErrNetwork
     /\ PostsGoToSessionPort']_vars

\* a job timed out and failed, its session is still active, and a later job
\* of the same session was sent to the same port
C9_Witness ==
  \E j1 \in DOMAIN jobs : \E w2 \in DOMAIN workers :
     /\ jobs[j1].status = "failed" /\ jobs[j1].error = ErrNetwork
     /\ workers[w2].job > j1
     /\ workers[w2].sid = jobs[j1].session
     /\ sessions[jobs[j1].session].status = "active"
     /\ workers[w2].pc = "await"
     /\ posts[workers[w2].job] = posts[j1]

\* C10 as stated: at most one POST /analyze_job is ever sent for a job id.
C10_OnePostPerJob ==
  \A j \in DOMAIN posts : Len(posts[j]) <= 1

\* the HTTP 200 outcomes
Ok200 == {"200", "200_error", "200_token_limit"}

\* C11 as stated: a worker handling an HTTP 200 that reports tokens above
\* zero for an owner with a ledger goes on to the ledger write, and that
\* write leaves the owner's used_token exactly the reported amount higher and
\* every other entry as it was; handling a response that reports zero tokens
\* leaves the ledger as it was.
C11_LedgerIncrementedOnce ==
  [][\A w \in DOMAIN workers : \A report \in BOOLEAN :
       /\ WorkerLedger(w, report) =>
            ledger' = [ledger EXCEPT ![workers[w].email] = @ + workers[w].tokens]
       /\ \A resp \in Ok200 :
            /\ WorkerResponse(w, resp, 0, report) => ledger' = ledger
            /\ \A tokens \in 1..MaxTokens :
                 (WorkerResponse(w, resp, tokens, report) /\ workers[w].email \in Users)
                    => (w \in DOMAIN workers' /\ workers'[w].pc = "ledger")]_vars

\* C12 as stated: handling an HTTP 402 whose JSON body carries metrics with
\* tokens above zero leaves the owner's used_token that amount higher and
\* the job with a durable document.
C12_TokenLimitStillCharged ==
  [][\A w \in DOMAIN workers : \A report \in BOOLEAN : \A tokens \in 1..MaxTokens :
       (WorkerResponse(w, "402_json", tokens, report)
          /\ workers[w].email \in Users /\ workers[w].job \in DOMAIN jobs) =>
         /\ ledger'[workers[w].email] = ledger[workers[w].email] + tokens
         /\ workers[w].job \in DOMAIN docs']_vars

\* C13: a report reaches blob storage only in a step that writes the job's
\* document with job_status success, and that step is a worker finishing the
\* job after a clean HTTP 200: handling an error in the result, token
\* exhaustion, a non-200 status or a network error uploads nothing.
C13_UploadOnlyOnSuccess ==
  [][\A j \in uploads' \ uploads :
       /\ j \in DOMAIN docs' /\ docs'[j].job_status = "success"
       /\ \E w \in DOMAIN workers : \E report \in BOOLEAN :
            /\ workers[w].job = j
            /\ \/ WorkerLedger(w, report) /\ workers[w].resp = "200"
               \/ \E tokens \in 0..MaxTokens : WorkerResponse(w, "200", tokens, report)
       /\ \A w \in DOMAIN workers : \A report \in BOOLEAN :
            /\ ~ (WorkerLedger(w, report) /\ workers[w].resp # "200")
            /\ \A resp \in Responses \ {"200"} : \A tokens \in 0..MaxTokens :
                 ~ WorkerResponse(w, resp, tokens, report)]_vars

\* one job's report was uploaded, and another job that ended after an HTTP
\* 200 has a failed document and no upload
C13_Witness ==
  \E j1 \in uploads : \E j2 \in DOMAIN docs :
     /\ docs[j1].job_status = "success" /\ docs[j1].report_url
     /\ j2 \notin uploads
     /\ docs[j2].job_status = "failed" /\ ~ docs[j2].report_url
     /\ j2 \in DOMAIN jobs /\ jobs[j2].status = "completed"

\* C14: a worker finishing a job whose HTTP 200 response carries
\* completion_reason token_limit_reached writes the job's document with
\* job_status failed and without report, whether or not a report is on disk
\* (a job without owner email has no document at all): a step that leaves
\* such a job without that document is not the handling of that response.
C14_TokenLimitRecordedFailed ==
  [][\A w \in DOMAIN workers \ DOMAIN workers' :
       LET j == workers[w].job
           wrote == /\ j \in DOMAIN docs'
                    /\ docs'[j] = [job_status |-> "failed", report_url |-> FALSE]
       IN (SaveReaches(jobs, j) /\ ~ wrote) =>
            \A report \in BOOLEAN :
               /\ ~ (WorkerLedger(w, report) /\ workers[w].resp = "200_token_limit")
               /\ \A tokens \in 0..MaxTokens :
                    ~ WorkerResponse(w, "200_token_limit", tokens, report)]_vars

\* a job that the registry shows completed, whose owner was charged tokens,
\* has a failed document without report
C14_Witness ==
  \E j \in DOMAIN docs :
     /\ docs[j] = [job_status |-> "failed", report_url |-> FALSE]
     /\ j \in DOMAIN jobs /\ jobs[j].status = "completed"
     /\ jobs[j].email \in Users /\ ledger[jobs[j].email] > 0
     /\ uploads = {}

\* C15: a caller whose identity differs from the job's owner snapshot never
\* receives the job's status, logs or report from any reader.
ReadOps == {"GetJobStatus", "GetJobReport", "JobLogs", "HandleJoinJob",
            "HandleJoinJobLogs"}

C15_ReadersCheckOwner ==
  (last.op \in ReadOps /\ last.ok) => Lower(last.owner) = Lower(last.caller)

\* C16 as stated: a call of CleanupInactive returns, and when it has returned
\* every row that was older than maxAge at the call is cleaned.
C16_CleanupInactiveTerminates ==
  (last.op = "CleanupInactive") ~>
     /\ last.op = "CleanupInactive" => last.returned
     /\ lock = "free"

\* C17 as stated: CleanupOldJobs removes the rows of exactly the jobs older
\* than maxAge and leaves every session's input directory, and the files in
\* it, as they were.
C17_CleanupOldJobsKeepsInput ==
  [][\A k \in 1..MaxJobs :
       CleanupOldJobs(k) =>
         /\ DOMAIN jobs' = {j \in DOMAIN jobs : j > k}
         /\ inputDirs' = inputDirs]_vars

\* C18: every dispatched job eventually is completed or failed, whatever
\* fails inside its worker, and a failed job always carries an error.
C18_JobsReachTerminal ==
  /\ [](\A j \in DOMAIN jobs : jobs[j].status = "failed" => jobs[j].error # NoError)
  /\ \A j \in 1..MaxJobs :
       (j \in DOMAIN jobs) ~>
          (j \in DOMAIN jobs /\ jobs[j].status \in {"completed", "failed"})

\* no worker is left; one job failed inside its worker because its session
\* was gone, another one ended after its request was answered or timed out
C18_Witness ==
  /\ workers = <<>>
  /\ \E j1, j2 \in DOMAIN jobs :
       /\ jobs[j1].status = "failed" /\ jobs[j1].error = ErrNoSession
       /\ jobs[j2].status \in {"completed", "failed"}
       /\ jobs[j2].error \in {NoError, ErrNetwork}

\* C19: after a CreateSession that raised (no free port, the container
\* launch failed, or the container not running after one start), neither
\* the registry nor its snapshot has a row for the id that was being created.
C19_NoRowAfterRaise ==
  (last.op = "CreateSession" /\ ~ last.ok) =>
     /\ last.sid \notin DOMAIN sessions
     /\ last.sid \notin DOMAIN sessionsFile

\* a CreateSession raised after its container was launched: the container
\* and the output directory exist, the registry has rows of other sessions
C19_Witness ==
  /\ last.op = "CreateSession" /\ ~ last.ok
  /\ last.sid \in DOMAIN containers /\ containers[last.sid].state = "exited"
  /\ last.sid \in outputDirs
  /\ sessions # <<>>

\* C20: after a CreateSession that returned an id, for as long as that
\* session's container keeps running, GetSessionContainer for the id finds
\* the row, and the row carries the session's container and the port the
\* container publishes.
C20_CreatedSessionResolves ==
  (/\ last.op = "CreateSession" /\ last.ok
   /\ containers[last.sid].state = "running") =>
     \A ipFound \in BOOLEAN :
        LET r == GetSessionContainer(last.sid, ipFound)
        IN /\ r.found
           /\ r.tbl[last.sid].obj
           /\ r.tbl[last.sid].port = containers[last.sid].port
           /\ r.tbl[last.sid].port \in Ports

\* a session was created without an address for its container, its
\* container runs, and the lookup finds it
C20_Witness ==
  /\ last.op = "CreateSession" /\ last.ok
  /\ containers[last.sid].state = "running"
  /\ ~ sessions[last.sid].ip
  /\ GetSessionContainer(last.sid, FALSE).found

\* C21: GetSessionContainer returns a row only for a session whose container
\* the reload shows running; for a row whose container has stopped it
\* leaves the status inactive and returns not-found; an id without a row is
\* not found and the registry stays as it is.
C21_FoundOnlyIfRunning ==
  \A s \in 0..MaxSessions : \A ipFound \in BOOLEAN :
     LET r == GetSessionContainer(s, ipFound)
     IN /\ r.found => /\ s \in DOMAIN sessions
                      /\ containers[s].state = "running"
                      /\ r.tbl[s].status = "active"
        /\ (s \in DOMAIN sessions /\ containers[s].state = "exited") =>
              /\ ~ r.found
              /\ r.tbl[s].status = "inactive"
        /\ s \notin DOMAIN sessions =>
              /\ ~ r.found
              /\ r.tbl = sessions

\* one session was polled after its container had stopped and is inactive
\* now; another one is active, its container runs, and the lookup finds it
C21_Witness ==
  \E s1, s2 \in DOMAIN sessions :
     /\ sessions[s1].status = "inactive" /\ containers[s1].state = "exited"
     /\ sessions[s2].status = "active" /\ containers[s2].state = "running"
     /\ GetSessionContainer(s2, FALSE).found
     /\ ~ GetSessionContainer(s1, FALSE).found

\* C22 as stated: a restart brings back every job row of the persisted job
\* table, with the fields it had on disk.
C22_JobsReloaded ==
  [][\A startOk \in SUBSET (1..MaxSessions) : \A ipFound \in BOOLEAN :
       Restart(startOk, ipFound) =>
         \A j \in DOMAIN jobsFile : j \in DOMAIN jobs' /\ jobs'[j] = jobsFile[j]]_vars

\* the ids in a sequence
Range(q) == {q[i] : i \in 1..Len(q)}

\* C24: startup recovery leaves in the registry exactly the saved rows whose
\* container runs when recovery is over; a row whose container is missing is
\* dropped; start() is called once for every saved row whose container was
\* stopped, for no other row, and never twice for a row.
C24_RecoveryKeepsRunning ==
  [][(/\ last'.op = "Restart"
      /\ \E startOk \in SUBSET (1..MaxSessions) : \E ipFound \in BOOLEAN :
            Restart(startOk, ipFound)) =>
       /\ DOMAIN sessions' =
            {s \in DOMAIN sessionsFile : containers'[s].state = "running"}
       /\ \A s \in DOMAIN sessionsFile :
            containers[s].state = "removed" => s \notin DOMAIN sessions'
       /\ Range(last'.starts) =
            {s \in DOMAIN sessionsFile : containers[s].state = "exited"}
       /\ Cardinality(Range(last'.starts)) = Len(last'.starts)]_vars

\* a recovery has just dropped one row whose container did not start and
\* one whose container is gone, and kept one whose container it started
C24_Witness ==
  /\ last.op = "Restart"
  /\ \E s1 \in DOMAIN sessionsFile \ DOMAIN sessions :
        s1 \in Range(last.starts) /\ containers[s1].state = "exited"
  /\ \E s2 \in DOMAIN sessions :
        s2 \in Range(last.starts) /\ containers[s2].state = "running"

\* C23 as stated, for the session registry: no thread is waiting for the
\* container runtime while it holds the registry lock, so the lookup of any
\* other session can always go ahead.
C23_NoRuntimeCallUnderLock ==
  /\ lock # "create_session"
  /\ \A s \in DOMAIN sessions : ENABLED ValidateSession(s, TRUE)

\* C25 as stated: once a job's started_at is set it is never written again,
\* and once its completed_at is set it is never written again.
C25_TimestampsSetOnce ==
  [][\A j \in DOMAIN jobs \cap DOMAIN jobs' :
       /\ jobs[j].started_at # NoTime => jobs'[j].started_at = jobs[j].started_at
       /\ jobs[j].completed_at # NoTime =>
            jobs'[j].completed_at = jobs[j].completed_at]_vars

\* C26 as stated: every job row a reader can get is a possible combination:
\* pending without timestamps; running with started_at and without
\* completed_at; terminal with completed_at, and with started_at unless the
\* job failed at dispatch before the container was reached.
C26_RowsConsistent ==
  \A j \in DOMAIN jobs :
     LET row == jobs[j]
     IN /\ row.status = "pending" =>
             row.started_at = NoTime /\ row.completed_at = NoTime
        /\ row.status = "running" =>
             row.started_at # NoTime /\ row.completed_at = NoTime
        /\ row.status \in {"completed", "failed", "cancelled"} =>
             /\ row.completed_at # NoTime
             /\ \/ row.started_at # NoTime
                \/ row.status = "failed" /\ row.error \in {ErrNoSession, ErrNoPort}

\* C27 as stated: for every job with a durable document the registry status
\* is completed exactly when the document says success, and failed exactly
\* when the document says failed.
C27_RegistryAgreesWithDocument ==
  \A j \in DOMAIN docs \cap DOMAIN jobs :
     /\ jobs[j].status = "completed" <=> docs[j].job_status = "success"
     /\ jobs[j].status = "failed" <=> docs[j].job_status = "failed"

\* C28 as stated: when two workers of one owner update the ledger
\* concurrently, no increment is lost: the update that is written second,
\* after the other worker's write went in between its own read and write,
\* still leaves the count higher by its amount than the first one left it.
C28_NoLostIncrement ==
  [][\A w \in DOMAIN workers : \A report \in BOOLEAN :
       (/\ workers[w].pc = "ledger"
        /\ workers[w].read # ledger[workers[w].email]
        /\ WorkerLedger(w, report)) =>
          ledger'[workers[w].email] = ledger[workers[w].email] + workers[w].tokens]_vars

\* C29 as stated: cleaning a session gives its port back, so while fewer
\* sessions are active than the range has ports the port scan of
\* CreateSession finds a port.
C29_PortsReusedAfterCleanup ==
  Cardinality(ActiveSessions) < NumPorts => FindFreePort # NoPort

\* C30 as stated: when a CreateSession has copied the files of a donor,
\* deleted the donor and then raised because the container did not come up,
\* the owner's next CreateSession still finds a session directory with
\* those files to copy from.
C30_FilesSurviveFailedCreate ==
  [][\A e \in Emails : \A run \in {"run_raises", "not_running"} : \A ip \in BOOLEAN :
       LET donor == MostRecentSessionWithFiles(e)
       IN (/\ FindFreePort # NoPort
           /\ donor # NoSession
           /\ ~ CleanupSkipped(donor)
           /\ CreateSession(e, run, ip)) =>
             /\ MostRecentSessionWithFiles(e)' # NoSession
             /\ inputDirs[donor] \subseteq inputDirs'[MostRecentSessionWithFiles(e)']]_vars

====
